---- MODULE Spec2Model ----
(***************************************************************************)
(* Model of bot.py: the schedule watcher, the reminder scheduler and the   *)
(* subscription handlers that share the in-memory subscriber maps.         *)
(*                                                                         *)
(* The program is one asyncio event loop: a coroutine runs without         *)
(* interruption from one `await` to the next, so every action below is the *)
(* code between two suspension points of one coroutine.                    *)
(*                                                                         *)
(* Python dicts are functions whose DOMAIN is the set of keys, so that     *)
(* `d.get(k)`, `d.pop(k, None)` and `d.setdefault(k, v)` are what they are *)
(* in the source.  A DaySchedule (dict date -> list of ranges) is the      *)
(* sequence of its items in insertion order.  A date "dd.mm.yyyy" is the   *)
(* tuple <<dd, mm, yyyy>>, a time "HH:MM" the tuple <<hh, mn>>, a datetime *)
(* the number of wall-clock seconds since 00:00:00 of EpochDate.           *)
(***************************************************************************)
EXTENDS Integers, Sequences, FiniteSets, TLC

\* ------------------------------------------------------------------ config
SITE_CHECK_EVERY_SECONDS == 300
PREALERT_WINDOW_SECONDS == 120
DEFAULT_NOTICE_MINUTES == 10
ALLOWED_NOTICE == {5, 10, 30}
\* asyncio.sleep(60) at the end of a reminders_loop iteration
REMINDER_SLEEP_SECONDS == 60

\* ---------------------------------------------------------- model universe
\* chat ids
Users == {1, 2}
\* subqueue labels "1.1" and "1.2"
Subqueues == {"1.1", "1.2"}
\* user commands (entity selection, /stop, notice:N, /force) one run may hold
MaxCmds == 1

D0 == <<31, 12, 2024>>
D1 == <<1, 1, 2025>>
EpochDate == D0
\* the dates datetime.now(TZ) can fall on within the horizon
CalendarDates == {D0, D1}

\* ------------------------------------------------------------ datetime
IsLeap(y) == (y % 4 = 0) /\ ((y % 100 # 0) \/ (y % 400 = 0))

DaysInMonth(y, m) ==
    IF m = 2 THEN (IF IsLeap(y) THEN 29 ELSE 28)
    ELSE IF m \in {4, 6, 9, 11} THEN 30 ELSE 31

RECURSIVE DaysBeforeMonth(_, _)
DaysBeforeMonth(y, m) ==
    IF m <= 1 THEN 0 ELSE DaysBeforeMonth(y, m - 1) + DaysInMonth(y, m - 1)

\* datetime.toordinal of a date <<dd, mm, yyyy>>
Ordinal(d) ==
    LET y == d[3] - 1
    IN  y * 365 + (y \div 4) - (y \div 100) + (y \div 400)
        + DaysBeforeMonth(d[3], d[2]) + d[1]

EpochOrdinal == Ordinal(EpochDate)

\* wall-clock seconds of 00:00:00 of date d
DayStart(d) == (Ordinal(d) - EpochOrdinal) * 86400

DayHolds(start, now) == start <= now /\ now < start + 86400

\* now.strftime("%d.%m.%Y") : the date whose day holds the instant
Strftime_dmY(now) == CHOOSE d \in CalendarDates : DayHolds(DayStart(d), now)

Reversed(d) == <<d[3], d[2], d[1]>>

\* now.strftime("%Y-%m-%d")
Strftime_Ymd(now) == Reversed(Strftime_dmY(now))

\* datetime(...) raises ValueError on a date or time that does not exist
ValidDate(d) ==
    /\ d[2] \in 1..12
    /\ d[1] \in 1..DaysInMonth(d[3], d[2])

ValidTime(hhmm) == hhmm[1] \in 0..23 /\ hhmm[2] \in 0..59

\* datetime(int(yy), int(mm), int(dd), int(hh), int(mn), 0, tzinfo=TZ)
DtForDate(d_str, hhmm) == DayStart(d_str) + hhmm[1] * 3600 + hhmm[2] * 60

\* the 23:59 sentinel runs to the last second of the day
IntervalEndDt(d_str, hhmm) ==
    DtForDate(d_str, hhmm) + (IF hhmm = <<23, 59>> THEN 59 ELSE 0)

\* ------------------------------------------------------ schedules, lookup
\* schedule_by_day.keys() in insertion order
Dates(sched) == [i \in 1..Len(sched) |-> sched[i][1]]

\* schedule_by_day.get(d, [])
DayGet(sched, d) ==
    IF \E i \in 1..Len(sched) : sched[i][1] = d
    THEN sched[CHOOSE i \in 1..Len(sched) : sched[i][1] = d][2]
    ELSE <<>>

\* schedules_all.get(subqueue, {})
SchedGet(schedules, sq) ==
    IF sq \in DOMAIN schedules THEN schedules[sq] ELSE <<>>

\* ------------------------------------------------------------ fingerprint
\* (int(yy), int(mm), int(dd))
DateSortKey(d) == <<d[3], d[2], d[1]>>

KeyLess(k1, k2) ==
    \/ k1[1] < k2[1]
    \/ k1[1] = k2[1] /\ k1[2] < k2[2]
    \/ k1[1] = k2[1] /\ k1[2] = k2[2] /\ k1[3] < k2[3]

\* sorted(seq, key=_date_sort_key): stable insertion sort
RECURSIVE InsertSorted(_, _)
InsertSorted(sorted, d) ==
    IF sorted = <<>> THEN <<d>>
    ELSE IF KeyLess(DateSortKey(d), DateSortKey(Head(sorted)))
         THEN <<d>> \o sorted
         ELSE <<Head(sorted)>> \o InsertSorted(Tail(sorted), d)

\* the keys as they are stored
SortedDates_Stored(ds) == ds
RECURSIVE SortedDates(_)
SortedDates(ds) ==
    IF ds = <<>> THEN <<>>
    ELSE InsertSorted(SortedDates(SubSeq(ds, 1, Len(ds) - 1)), ds[Len(ds)])

\* the parts f"{a}-{b}" of one date: a range is the token <<ah, am, bh, bm>>
RangeParts(ranges) == [i \in 1..Len(ranges) |-> ranges[i][1] \o ranges[i][2]]

RECURSIVE HashParts(_, _)
HashParts(sched, ds) ==
    IF ds = <<>> THEN <<>>
    ELSE <<Head(ds)>> \o RangeParts(DayGet(sched, Head(ds)))
         \o HashParts(sched, Tail(ds))

\* The digest is modelled by the canonical sequence of parts that is joined
\* and fed to SHA-256 (SHA-256 taken as collision free).
schedule_hash(sched) == HashParts(sched, SortedDates(Dates(sched)))

\* ---------------------------------------------------------- event projector
NoEvent == [dt |-> -1, type |-> "None"]
\* the call ends in an exception instead of a value
Raised == [dt |-> -1, type |-> "Raise"]

\* a range that is open at its end
Holds_Open(st, en, now) == st <= now /\ now < en
\* st <= now <= en
Holds(st, en, now) == st <= now /\ now <= en

\* the first range of today, in stored order, that holds now
RECURSIVE FirstHolding(_, _, _)
FirstHolding(today, ranges, now) ==
    IF ranges = <<>> THEN NoEvent
    ELSE IF ~(ValidTime(Head(ranges)[1]) /\ ValidTime(Head(ranges)[2])) THEN Raised
    ELSE IF Holds(DtForDate(today, Head(ranges)[1]),
                  IntervalEndDt(today, Head(ranges)[2]), now)
         THEN [dt |-> IntervalEndDt(today, Head(ranges)[2]), type |-> "ON"]
         ELSE FirstHolding(today, Tail(ranges), now)

\* the start instants of every range of every date
AllStarts(sched) ==
    UNION { { DtForDate(sched[i][1], sched[i][2][j][1]) : j \in 1..Len(sched[i][2]) } :
            i \in 1..Len(sched) }

\* the candidates loop calls _dt_for_date on every start of every date
CandidatesRaise(sched) ==
    \E i \in 1..Len(sched) :
        /\ sched[i][2] # <<>>
        /\ \/ ~ValidDate(sched[i][1])
           \/ \E j \in 1..Len(sched[i][2]) : ~ValidTime(sched[i][2][j][1])

\* every range start strictly after now, over all dates
Candidates(sched, now) == { t \in AllStarts(sched) : t > now }

SetMin(S) == CHOOSE x \in S : \A y \in S : x <= y
SetMax(S) == CHOOSE x \in S : \A y \in S : y <= x

\* the latest of the candidates
NearestStart_Last(c) == IF c # {} THEN [dt |-> SetMax(c), type |-> "OFF"] ELSE NoEvent
\* rule 2 and rule 3 over the candidates c
NearestStart(c) == IF c # {} THEN [dt |-> SetMin(c), type |-> "OFF"] ELSE NoEvent

\* the scan of today's ranges ended with `on`
AfterToday(on, sched, now) ==
    IF on # NoEvent THEN on
    ELSE IF CandidatesRaise(sched) THEN Raised
    ELSE NearestStart(Candidates(sched, now))

TodayScan(today, sched, now) == FirstHolding(today, DayGet(sched, today), now)

next_event(sched, now) ==
    CHOOSE ev \in { AfterToday(on, sched, now) :
                      on \in { TodayScan(today, sched, now) :
                                 today \in {Strftime_dmY(now)} } } : TRUE

\* ------------------------------------------------- the fetched documents
\* What parse_all_schedules(fetch_html()) can return: (update_marker,
\* schedules).  A subqueue without ranges is absent from the mapping.
PastDay == <<D0, << <<<<10, 0>>, <<11, 0>>>> >> >>
\* "1.1": an outage from 00:03 of D1
SchedA1 == << <<D1, << <<<<0, 3>>, <<0, 4>>>> >> >> >>
\* "1.1": the same outage as SchedA1 after a past day: another fingerprint
SchedB1 == << PastDay, <<D1, << <<<<0, 3>>, <<0, 4>>>> >> >> >>
\* "1.2": an outage from 00:04 of D1
SchedA2 == << <<D1, << <<<<0, 4>>, <<0, 5>>>> >> >> >>
\* "1.2": a date that matches DATE_RE and is no date of the calendar
SchedX2 == << PastDay, <<<<31, 2, 2025>>, << <<<<1, 0>>, <<2, 0>>>> >> >> >>

DocA == [marker |-> "upd1", schedules |-> ("1.1" :> SchedA1 @@ "1.2" :> SchedA2)]
\* "1.1" is republished, "1.2" is what it was
DocB == [marker |-> "upd2", schedules |-> ("1.1" :> SchedB1 @@ "1.2" :> SchedA2)]
\* no ranges for "1.1"
DocX == [marker |-> "upd3", schedules |-> ("1.2" :> SchedX2)]
\* no table or no header row: the empty mapping
DocE == [marker |-> "None", schedules |-> <<>>]
Docs == {DocA, DocB, DocX}

\* ------------------------------------------------------------------ dicts
Put(d, k, v) == [j \in (DOMAIN d) \cup {k} |-> IF j = k THEN v ELSE d[j]]
Pop(d, k) == [j \in (DOMAIN d) \ {k} |-> d[j]]
SetDefault(d, k, v) == IF k \in DOMAIN d THEN d ELSE Put(d, k, v)

\* USER_SUBQUEUE keeps insertion order (list(USER_SUBQUEUE.items()) is read in
\* that order): it is the sequence of its <<chat_id, subqueue>> items.
SubHas(subs, c) == \E i \in 1..Len(subs) : subs[i][1] = c
SubGet(subs, c) == subs[CHOOSE i \in 1..Len(subs) : subs[i][1] = c][2]
SubPut(subs, c, sq) ==
    IF SubHas(subs, c)
    THEN [i \in 1..Len(subs) |-> IF subs[i][1] = c THEN <<c, sq>> ELSE subs[i]]
    ELSE Append(subs, <<c, sq>>)
SubPop(subs, c) == SelectSeq(subs, LAMBDA it : it[1] # c)

\* ------------------------------------------------------------------ clock
\* The clock moves in steps of one reminder sleep.
Step == REMINDER_SLEEP_SECONDS
WatchSleepSteps == SITE_CHECK_EVERY_SECONDS \div Step
ReminderSleepSteps == REMINDER_SLEEP_SECONDS \div Step
\* the instant main() starts the two loops
StartTime == DtForDate(D0, <<23, 58>>)

AllSchedules == UNION { { doc.schedules[sq] : sq \in DOMAIN doc.schedules } : doc \in Docs }
\* every transition instant, on a date that exists, of every schedule a fetch
\* can return
DayInstants(d, ranges) ==
    UNION { { DtForDate(d, ranges[j][1]), IntervalEndDt(d, ranges[j][2]) } :
            j \in 1..Len(ranges) }
SchedInstants(s) ==
    UNION { DayInstants(s[i][1], s[i][2]) : i \in { k \in 1..Len(s) : ValidDate(s[k][1]) } }
AllInstants == UNION { SchedInstants(s) : s \in AllSchedules }
\* From Horizon on no reminder window [T - notice, T - notice + window) holds
\* the clock, and a schedule on which next_event can raise has all its
\* transitions behind it: a tick at any later instant does what a tick at
\* Horizon does, so the clock stays there.
Horizon ==
    LET last == SetMax({ t - n * 60 + PREALERT_WINDOW_SECONDS :
                           t \in AllInstants, n \in ALLOWED_NOTICE }
                       \cup UNION { { t + 1 : t \in SchedInstants(s) } :
                                    s \in { r \in AllSchedules : CandidatesRaise(r) } })
    IN  StartTime + ((last - StartTime + Step - 1) \div Step) * Step

\* ------------------------------------------------------------------ state
VARIABLES
    USER_SUBQUEUE,             \* chat_id -> subqueue, in insertion order
    USER_NOTICE,               \* chat_id -> notice minutes
    USER_LAST_HASH,            \* chat_id -> fingerprint
    USER_LAST_SCHEDULE,        \* chat_id -> DaySchedule
    USER_LAST_UPDATE_MARKER,   \* chat_id -> marker
    USER_NOTIFIED_KEYS,        \* chat_id -> set of keys
    last_global_schedules,     \* _last_global_schedules
    last_global_update_marker, \* _last_global_update_marker
    now,                       \* the wall clock
    mainpc,                    \* main(): "init" before the loops exist, then "run"
    watch,                     \* site_watcher_loop and its process_site_once call
    rem,                       \* reminders_loop
    force,                     \* admin_force and its process_site_once call
    choose,                    \* chat_id -> the choose_subqueue call in flight
    cmds,                      \* user commands so far
    delivered,                 \* history: the reminders handed to bot.send_message
    call                       \* a call of a pure function: its arguments and result

users == <<USER_SUBQUEUE, USER_NOTICE, USER_LAST_HASH, USER_LAST_SCHEDULE,
           USER_LAST_UPDATE_MARKER, USER_NOTIFIED_KEYS>>
globals == <<last_global_schedules, last_global_update_marker>>
tasks == <<mainpc, watch, rem, force, choose>>
\* the state of the running program
program == <<users, globals, now, tasks, cmds, delivered>>
vars == <<program, call>>

\* the subscriber maps process_site_once writes
Maps == [hash |-> USER_LAST_HASH, sched |-> USER_LAST_SCHEDULE,
         marker |-> USER_LAST_UPDATE_MARKER, keys |-> USER_NOTIFIED_KEYS]

\* ------------------------------------------------------- process_site_once
\* a comparison that records the new fingerprint and keeps the keys
CompareHash_KeepKeys(m1, chat_id, new_hash, send_updates) ==
    IF chat_id \notin DOMAIN m1.hash
    THEN [m |-> [m1 EXCEPT !.hash = Put(m1.hash, chat_id, new_hash),
                           !.keys = SetDefault(m1.keys, chat_id, {})],
          notify |-> FALSE]
    ELSE IF send_updates /\ new_hash # m1.hash[chat_id]
    THEN [m |-> [m1 EXCEPT !.hash = Put(m1.hash, chat_id, new_hash)],
          notify |-> TRUE]
    ELSE [m |-> m1, notify |-> FALSE]
\* lines 429-442, once the schedule and the marker of the subscriber are
\* stored in m1: the maps after the iteration, and whether it sends
CompareHash(m1, chat_id, new_hash, send_updates) ==
    IF chat_id \notin DOMAIN m1.hash
    THEN [m |-> [m1 EXCEPT !.hash = Put(m1.hash, chat_id, new_hash),
                           !.keys = SetDefault(m1.keys, chat_id, {})],
          notify |-> FALSE]
    ELSE IF send_updates /\ new_hash # m1.hash[chat_id]
    THEN [m |-> [m1 EXCEPT !.hash = Put(m1.hash, chat_id, new_hash),
                           !.keys = Put(m1.keys, chat_id, {})],
          notify |-> TRUE]
    ELSE [m |-> m1, notify |-> FALSE]

\* an iteration that leaves the cached schedule for later
StoreSchedule_Later(m, chat_id, schedule_by_day, marker) ==
    [m EXCEPT !.marker = Put(m.marker, chat_id, marker)]
\* lines 423-424
StoreSchedule(m, chat_id, schedule_by_day, marker) ==
    [m EXCEPT !.sched = Put(m.sched, chat_id, schedule_by_day),
              !.marker = Put(m.marker, chat_id, marker)]

ProcessSchedule(m, chat_id, schedule_by_day, marker, send_updates) ==
    CompareHash(StoreSchedule(m, chat_id, schedule_by_day, marker), chat_id,
                schedule_hash(schedule_by_day), send_updates)

\* an iteration that passes over a subscriber whose fetched schedule is empty
ProcessSubscriber_SkipEmpty(m, chat_id, subqueue, doc, send_updates) ==
    IF SchedGet(doc.schedules, subqueue) = <<>> THEN [m |-> m, notify |-> FALSE]
    ELSE ProcessSchedule(m, chat_id, SchedGet(doc.schedules, subqueue), doc.marker,
                         send_updates)
\* One iteration of the loop over list(USER_SUBQUEUE.items()), up to the
\* await of send_main_menu.
ProcessSubscriber(m, chat_id, subqueue, doc, send_updates) ==
    ProcessSchedule(m, chat_id, SchedGet(doc.schedules, subqueue), doc.marker, send_updates)

\* The loop from item i of the snapshot on, up to the first await or to the
\* end: idx is the item whose notification is being sent, or Len(snap) + 1.
RECURSIVE RunSite(_, _, _, _, _)
RECURSIVE AfterSubscriber(_, _, _, _, _)
AfterSubscriber(r, snap, i, doc, send_updates) ==
    IF r.notify THEN [m |-> r.m, idx |-> i, notify |-> TRUE]
    ELSE RunSite(r.m, snap, i + 1, doc, send_updates)

RunSite(m, snap, i, doc, send_updates) ==
    IF i > Len(snap) THEN [m |-> m, idx |-> i, notify |-> FALSE]
    ELSE CHOOSE run \in
            { AfterSubscriber(r, snap, i, doc, send_updates) :
                r \in {ProcessSubscriber(m, snap[i][1], snap[i][2], doc, send_updates)} } :
            TRUE

\* ---------------------------------------------------------- reminders_loop
\* the published schedule of the entity, whatever is cached
ReminderSchedule_Published(chat_id, subqueue) == SchedGet(last_global_schedules, subqueue)
\* USER_LAST_SCHEDULE.get(chat_id) or _last_global_schedules.get(subqueue, {})
ReminderSchedule(chat_id, subqueue) ==
    IF chat_id \in DOMAIN USER_LAST_SCHEDULE /\ USER_LAST_SCHEDULE[chat_id] # <<>>
    THEN USER_LAST_SCHEDULE[chat_id]
    ELSE SchedGet(last_global_schedules, subqueue)

\* a window that is closed on the right
WindowHolds_Closed(notify_time, tnow) ==
    notify_time <= tnow /\ tnow <= notify_time + PREALERT_WINDOW_SECONDS
\* notify_time <= now < notify_time + timedelta(seconds=PREALERT_WINDOW_SECONDS)
WindowHolds(notify_time, tnow) ==
    notify_time <= tnow /\ tnow < notify_time + PREALERT_WINDOW_SECONDS

InWindow(event_dt, notice, tnow) == WindowHolds(event_dt - notice * 60, tnow)

\* f"{day_key}|{subqueue}|{event_type}|{event_dt.isoformat()}|{notice}"
ReminderKey(tnow, subqueue, ev, notice) ==
    <<Strftime_Ymd(tnow), subqueue, ev.type, ev.dt, notice>>

Nothing(r) == [r |-> r, out |-> "next", msg |-> <<>>]

\* lines 480-491: the key is looked up, added, and the reminder is sent
Deliver(r1, chat_id, subqueue, ev, notice, key, tnow) ==
    IF key \in r1.keys[chat_id] THEN Nothing(r1)
    ELSE [r |-> [r1 EXCEPT !.keys = Put(r1.keys, chat_id, r1.keys[chat_id] \cup {key})],
          out |-> "send",
          msg |-> <<[to |-> chat_id, subqueue |-> subqueue, type |-> ev.type,
                     dt |-> ev.dt, notice |-> notice, at |-> tnow]>>]

\* lines 473-479, with r1 the maps after lines 465-470
Project(r1, chat_id, subqueue, ev, notice, tnow) ==
    IF ev = Raised THEN [r |-> r1, out |-> "raise", msg |-> <<>>]
    ELSE IF ev = NoEvent THEN Nothing(r1)
    ELSE IF ~InWindow(ev.dt, notice, tnow) THEN Nothing(r1)
    ELSE Deliver(r1, chat_id, subqueue, ev, notice,
                 ReminderKey(tnow, subqueue, ev, notice), tnow)

\* a normalisation that stores the default whatever the stored notice is
Normalise_Always(r, chat_id, stored) ==
    [keys |-> SetDefault(r.keys, chat_id, {}),
     notice |-> Put(r.notice, chat_id, DEFAULT_NOTICE_MINUTES)]
\* lines 465-470: the stored notice is normalised, the key set is created
Normalise(r, chat_id, stored) ==
    [keys |-> SetDefault(r.keys, chat_id, {}),
     notice |-> IF stored \in ALLOWED_NOTICE THEN r.notice
                ELSE Put(r.notice, chat_id, DEFAULT_NOTICE_MINUTES)]

EffectiveNotice(stored) ==
    IF stored \in ALLOWED_NOTICE THEN stored ELSE DEFAULT_NOTICE_MINUTES

\* USER_NOTICE.get(chat_id, DEFAULT_NOTICE_MINUTES)
StoredNotice(notice, chat_id) ==
    IF chat_id \in DOMAIN notice THEN notice[chat_id] ELSE DEFAULT_NOTICE_MINUTES

Evaluate(r, chat_id, subqueue, schedule_by_day, stored, tnow) ==
    IF schedule_by_day = <<>> THEN Nothing(r)
    ELSE CHOOSE o \in
            { Project(r1, chat_id, subqueue, ev, EffectiveNotice(stored), tnow) :
                r1 \in {Normalise(r, chat_id, stored)},
                ev \in {next_event(schedule_by_day, tnow)} } : TRUE

\* One iteration of the loop over list(USER_SUBQUEUE.items()), up to the
\* await of bot.send_message: r is [keys, notice] (USER_NOTIFIED_KEYS and
\* USER_NOTICE); out says how the iteration ends.
RemindSubscriber(r, chat_id, subqueue, tnow) ==
    Evaluate(r, chat_id, subqueue, ReminderSchedule(chat_id, subqueue),
             StoredNotice(r.notice, chat_id), tnow)

\* The loop from item i of the snapshot on, up to the first await, to an
\* exception or to the end.
RECURSIVE RunReminders(_, _, _, _)
RECURSIVE AfterReminder(_, _, _, _)
AfterReminder(o, snap, i, tnow) ==
    IF o.out = "next" THEN RunReminders(o.r, snap, i + 1, tnow)
    ELSE [r |-> o.r, idx |-> i, out |-> o.out, msg |-> o.msg]

RunReminders(r, snap, i, tnow) ==
    IF i > Len(snap) THEN [r |-> r, idx |-> i, out |-> "end", msg |-> <<>>]
    ELSE CHOOSE run \in
            { AfterReminder(o, snap, i, tnow) :
                o \in {RemindSubscriber(r, snap[i][1], snap[i][2], tnow)} } :
            TRUE

\* ------------------------------------------------------------------- Init
\* a task that is not inside a call holds no locals
Idle(pc, timer) ==
    [pc |-> pc, timer |-> timer, snap |-> <<>>, idx |-> 0, doc |-> DocE, tnow |-> 0,
     msg |-> <<>>]
NoChoose == [pc |-> "idle", subqueue |-> "None"]
\* no pure function is being called on its own
NoCall == [fn |-> "None"]

\* load_state(): the persisted subqueue and notice of every known user; the
\* runs explored start with the users persisted in the order of their ids
PersistedSubqueues ==
    { s \in UNION { [1..n -> Users \X Subqueues] : n \in 0..Cardinality(Users) } :
        \A i \in 1..Len(s) : s[i][1] = i }

\* the persisted notice values of the runs explored
InitNotices == {5}

Init ==
    /\ USER_SUBQUEUE \in PersistedSubqueues
    /\ USER_NOTICE \in [Users -> InitNotices]
    /\ USER_LAST_HASH = <<>>
    /\ USER_LAST_SCHEDULE = <<>>
    /\ USER_LAST_UPDATE_MARKER = <<>>
    /\ USER_NOTIFIED_KEYS = <<>>
    /\ last_global_schedules = <<>>
    /\ last_global_update_marker = "None"
    /\ now = StartTime
    /\ mainpc = "init"
    /\ watch = Idle("sleep", 0)
    /\ rem = Idle("sleep", 0)
    /\ force = Idle("idle", 0)
    /\ choose = [u \in Users |-> NoChoose]
    /\ cmds = 0
    /\ delivered = {}
    /\ call = NoCall

\* ---------------------------------------------------- process_site_once, acts
\* The assignment of the maps process_site_once writes.
SetMaps(m) ==
    /\ USER_LAST_HASH' = m.hash
    /\ USER_LAST_SCHEDULE' = m.sched
    /\ USER_LAST_UPDATE_MARKER' = m.marker
    /\ USER_NOTIFIED_KEYS' = m.keys

\* the publication of a fetch
Publish(doc) ==
    /\ last_global_schedules' = doc.schedules
    /\ last_global_update_marker' = doc.marker

\* main(): the initial fetch, send_updates=False, before the loops and the
\* dispatcher exist
MainInitialFetchOk(doc) ==
    /\ mainpc = "init"
    /\ mainpc' = "run"
    /\ Publish(doc)
    /\ SetMaps(RunSite(Maps, USER_SUBQUEUE, 1, doc, FALSE).m)
    /\ UNCHANGED <<USER_SUBQUEUE, USER_NOTICE, now, watch, rem, force, choose,
                   cmds, delivered, call>>

\* the initial fetch raises: the failure is printed and main() goes on
MainInitialFetchFail ==
    /\ mainpc = "init"
    /\ mainpc' = "run"
    /\ UNCHANGED <<users, globals, now, watch, rem, force, choose, cmds, delivered, call>>

\* the state after a run of the loop of process_site_once(send_updates=True)
\* by task t: the task sleeps `timer` steps in endpc when the call returned
SiteApply(run, t, snap, doc, endpc, timer) ==
    /\ SetMaps(run.m)
    /\ t' = IF run.notify
            THEN [pc |-> "send", timer |-> 0, snap |-> snap, idx |-> run.idx,
                  doc |-> doc, tnow |-> 0, msg |-> <<>>]
            ELSE Idle(endpc, timer)

\* process_site_once(send_updates=True) of task t from item `from` of snap on
SiteRun(t, snap, from, doc, endpc, timer) ==
    \E run \in {RunSite(Maps, snap, from, doc, TRUE)} :
        SiteApply(run, t, snap, doc, endpc, timer)

\* ------------------------------------------------------- site_watcher_loop
\* the loop wakes with subscribers: process_site_once starts its fetch
WatchTick ==
    /\ mainpc = "run" /\ watch.pc = "sleep" /\ watch.timer = 0
    /\ USER_SUBQUEUE # <<>>
    /\ watch' = Idle("fetch", 0)
    /\ UNCHANGED <<users, globals, now, mainpc, rem, force, choose, cmds, delivered, call>>

\* the loop wakes without subscribers and sleeps again
WatchSkip ==
    /\ mainpc = "run" /\ watch.pc = "sleep" /\ watch.timer = 0
    /\ USER_SUBQUEUE = <<>>
    /\ watch' = Idle("sleep", WatchSleepSteps)
    /\ UNCHANGED <<users, globals, now, mainpc, rem, force, choose, cmds, delivered, call>>

\* fetch_html returns and the document parses to doc
WatchFetchOk(doc) ==
    /\ watch.pc = "fetch"
    /\ Publish(doc)
    /\ SiteRun(watch, USER_SUBQUEUE, 1, doc, "sleep", WatchSleepSteps)
    /\ UNCHANGED <<USER_SUBQUEUE, USER_NOTICE, now, mainpc, rem, force, choose, cmds, delivered, call>>

\* a failed fetch that publishes an empty document
WatchFetchFail_Publishes ==
    /\ watch.pc = "fetch"
    /\ watch' = Idle("sleep", WatchSleepSteps)
    /\ Publish(DocE)
    /\ UNCHANGED <<users, now, mainpc, rem, force, choose, cmds, delivered, call>>
\* fetch_html or the parser raises: caught by the loop, which sleeps
WatchFetchFail ==
    /\ watch.pc = "fetch"
    /\ watch' = Idle("sleep", WatchSleepSteps)
    /\ UNCHANGED <<users, globals, now, mainpc, rem, force, choose, cmds, delivered, call>>

\* send_main_menu returns: the loop over the snapshot goes on
WatchSendOk ==
    /\ watch.pc = "send"
    /\ SiteRun(watch, watch.snap, watch.idx + 1, watch.doc, "sleep", WatchSleepSteps)
    /\ UNCHANGED <<USER_SUBQUEUE, USER_NOTICE, globals, now, mainpc, rem, force, choose,
                   cmds, delivered, call>>

\* send_main_menu raises: the exception leaves process_site_once and is
\* caught by the loop, which sleeps
WatchSendFail ==
    /\ watch.pc = "send"
    /\ watch' = Idle("sleep", WatchSleepSteps)
    /\ UNCHANGED <<users, globals, now, mainpc, rem, force, choose, cmds, delivered, call>>

\* ------------------------------------------------------------- admin_force
\* /force from the admin: "checking now" is answered, the fetch starts
ForceStart ==
    /\ mainpc = "run" /\ force.pc = "idle" /\ cmds < MaxCmds
    /\ cmds' = cmds + 1
    /\ force' = Idle("fetch", 0)
    /\ UNCHANGED <<users, globals, now, mainpc, watch, rem, choose, delivered, call>>

ForceFetchOk(doc) ==
    /\ force.pc = "fetch"
    /\ Publish(doc)
    /\ SiteRun(force, USER_SUBQUEUE, 1, doc, "idle", 0)
    /\ UNCHANGED <<USER_SUBQUEUE, USER_NOTICE, now, mainpc, watch, rem, choose, cmds, delivered, call>>

\* the exception is caught by admin_force and answered to the admin
ForceFetchFail ==
    /\ force.pc = "fetch"
    /\ force' = Idle("idle", 0)
    /\ UNCHANGED <<users, globals, now, mainpc, watch, rem, choose, cmds, delivered, call>>

ForceSendOk ==
    /\ force.pc = "send"
    /\ SiteRun(force, force.snap, force.idx + 1, force.doc, "idle", 0)
    /\ UNCHANGED <<USER_SUBQUEUE, USER_NOTICE, globals, now, mainpc, watch, rem, choose,
                   cmds, delivered, call>>

ForceSendFail ==
    /\ force.pc = "send"
    /\ force' = Idle("idle", 0)
    /\ UNCHANGED <<users, globals, now, mainpc, watch, rem, choose, cmds, delivered, call>>

\* ---------------------------------------------------------- reminders_loop
\* History of the reminders handed to bot.send_message since the user's last
\* selection or /stop: <<chat_id, instant, kind, notice, k>> says that the
\* k-th reminder (k = 2: the second or a later one) for that transition and
\* lead-time was sent.
Nth(d, m) == IF <<m.to, m.dt, m.type, m.notice, 1>> \in d THEN 2 ELSE 1
Record(d, msg) ==
    IF msg = <<>> THEN d
    ELSE d \cup {<<msg[1].to, msg[1].dt, msg[1].type, msg[1].notice, Nth(d, msg[1])>>}
Forget(d, chat_id) == { e \in d : e[1] # chat_id }

\* the state after a run of the loop of reminders_loop
RemindersApply(run, snap, tnow) ==
    /\ USER_NOTIFIED_KEYS' = run.r.keys
    /\ USER_NOTICE' = run.r.notice
    /\ delivered' = Record(delivered, run.msg)
    /\ rem' = IF run.out = "send"
              THEN [pc |-> "send", timer |-> 0, snap |-> snap, idx |-> run.idx,
                    doc |-> DocE, tnow |-> tnow, msg |-> run.msg]
              ELSE Idle("sleep", ReminderSleepSteps)

\* reminders_loop from item `from` of snap on, with the tick's now
RemindersRun(snap, from, tnow) ==
    \E run \in {RunReminders([keys |-> USER_NOTIFIED_KEYS, notice |-> USER_NOTICE],
                              snap, from, tnow)} :
        RemindersApply(run, snap, tnow)

\* the loop wakes: now is read once for the whole tick
ReminderTick ==
    /\ mainpc = "run" /\ rem.pc = "sleep" /\ rem.timer = 0
    /\ RemindersRun(USER_SUBQUEUE, 1, now)
    /\ UNCHANGED <<USER_SUBQUEUE, USER_LAST_HASH, USER_LAST_SCHEDULE, USER_LAST_UPDATE_MARKER,
                   globals, now, mainpc, watch, force, choose, cmds, call>>

\* bot.send_message returns: the loop over the snapshot goes on
ReminderSendOk ==
    /\ rem.pc = "send"
    /\ RemindersRun(rem.snap, rem.idx + 1, rem.tnow)
    /\ UNCHANGED <<USER_SUBQUEUE, USER_LAST_HASH, USER_LAST_SCHEDULE, USER_LAST_UPDATE_MARKER,
                   globals, now, mainpc, watch, force, choose, cmds, call>>

\* a send failure that ends reminders_loop
ReminderSendFail_Dies ==
    /\ rem.pc = "send"
    /\ rem' = Idle("dead", 0)
    /\ UNCHANGED <<users, globals, now, mainpc, watch, force, choose, cmds, delivered, call>>
\* bot.send_message raises: caught by the loop, which sleeps
ReminderSendFail ==
    /\ rem.pc = "send"
    /\ rem' = Idle("sleep", ReminderSleepSteps)
    /\ UNCHANGED <<users, globals, now, mainpc, watch, force, choose, cmds, delivered, call>>

\* ---------------------------------------------------------------- handlers
\* choose_subqueue up to its awaits (cb.answer, then the fetch of
\* process_site_once): the selection is stored, nothing else is reset
ChooseStart(chat_id, subqueue) ==
    /\ mainpc = "run" /\ choose[chat_id].pc = "idle" /\ cmds < MaxCmds
    /\ cmds' = cmds + 1
    /\ USER_SUBQUEUE' = SubPut(USER_SUBQUEUE, chat_id, subqueue)
    /\ USER_NOTIFIED_KEYS' = SetDefault(USER_NOTIFIED_KEYS, chat_id, {})
    /\ choose' = [choose EXCEPT ![chat_id] = [pc |-> "fetch", subqueue |-> subqueue]]
    /\ delivered' = Forget(delivered, chat_id)
    /\ UNCHANGED <<USER_NOTICE, USER_LAST_HASH, USER_LAST_SCHEDULE, USER_LAST_UPDATE_MARKER,
                   globals, now, mainpc, watch, rem, force, call>>

\* lines 645-651: the caller's own maps, set from the published schedule
SetOwn(m, chat_id, schedule_by_day, marker) ==
    [hash |-> Put(m.hash, chat_id, schedule_hash(schedule_by_day)),
     sched |-> Put(m.sched, chat_id, schedule_by_day),
     marker |-> Put(m.marker, chat_id, marker),
     keys |-> Put(m.keys, chat_id, {})]

\* the fetch returns: process_site_once(send_updates=False) runs to its end,
\* then the caller's own maps are set from the published schedule
ChooseFetchOk(chat_id, doc) ==
    /\ choose[chat_id].pc = "fetch"
    /\ Publish(doc)
    /\ SetMaps(SetOwn(RunSite(Maps, USER_SUBQUEUE, 1, doc, FALSE).m, chat_id,
                      SchedGet(doc.schedules, choose[chat_id].subqueue), doc.marker))
    /\ choose' = [choose EXCEPT ![chat_id] = NoChoose]
    /\ UNCHANGED <<USER_SUBQUEUE, USER_NOTICE, now, mainpc, watch, rem, force, cmds, delivered, call>>

\* cb.answer or the fetch raises: the user is told the schedule is unavailable
ChooseFetchFail(chat_id) ==
    /\ choose[chat_id].pc = "fetch"
    /\ choose' = [choose EXCEPT ![chat_id] = NoChoose]
    /\ UNCHANGED <<users, globals, now, mainpc, watch, rem, force, cmds, delivered, call>>

\* cmd_stop, and main_buttons with action "stop"
Stop(chat_id) ==
    /\ mainpc = "run" /\ cmds < MaxCmds
    /\ \/ SubHas(USER_SUBQUEUE, chat_id)
       \/ chat_id \in DOMAIN USER_LAST_HASH \cup DOMAIN USER_LAST_SCHEDULE
                      \cup DOMAIN USER_NOTIFIED_KEYS
    /\ cmds' = cmds + 1
    /\ USER_SUBQUEUE' = SubPop(USER_SUBQUEUE, chat_id)
    /\ USER_LAST_HASH' = Pop(USER_LAST_HASH, chat_id)
    /\ USER_LAST_SCHEDULE' = Pop(USER_LAST_SCHEDULE, chat_id)
    /\ USER_LAST_UPDATE_MARKER' = Pop(USER_LAST_UPDATE_MARKER, chat_id)
    /\ USER_NOTIFIED_KEYS' = Pop(USER_NOTIFIED_KEYS, chat_id)
    /\ delivered' = Forget(delivered, chat_id)
    /\ UNCHANGED <<USER_NOTICE, globals, now, tasks, call>>

\* choose_notice with an allowed value
ChooseNotice(chat_id, val) ==
    /\ mainpc = "run" /\ cmds < MaxCmds
    /\ val \in ALLOWED_NOTICE /\ USER_NOTICE[chat_id] # val
    /\ cmds' = cmds + 1
    /\ USER_NOTICE' = [USER_NOTICE EXCEPT ![chat_id] = val]
    /\ UNCHANGED <<USER_SUBQUEUE, USER_LAST_HASH, USER_LAST_SCHEDULE, USER_LAST_UPDATE_MARKER,
                   USER_NOTIFIED_KEYS, globals, now, tasks, delivered, call>>

\* ------------------------------------------------------------------- time
\* A loop whose sleep is over runs before the clock moves. fetch_html gives up
\* after its timeout, which is shorter than a step of the clock: a fetch ends
\* within the step it started in. A send takes any number of steps.
Fetching ==
    \/ watch.pc = "fetch" \/ force.pc = "fetch"
    \/ \E u \in Users : choose[u].pc = "fetch"

Tick(t) == IF t.pc = "sleep" /\ t.timer > 0 THEN [t EXCEPT !.timer = t.timer - 1] ELSE t

Advance ==
    /\ mainpc = "run"
    /\ ~(watch.pc = "sleep" /\ watch.timer = 0)
    /\ ~(rem.pc = "sleep" /\ rem.timer = 0)
    /\ ~Fetching
    /\ now' = IF now + Step > Horizon THEN Horizon ELSE now + Step
    /\ watch' = Tick(watch)
    /\ rem' = Tick(rem)
    /\ UNCHANGED <<users, globals, mainpc, force, choose, cmds, delivered, call>>

\* main() and the two loops it starts, with the clock
Loops ==
    \/ MainInitialFetchFail
    \/ \E doc \in Docs : MainInitialFetchOk(doc)
    \/ WatchTick \/ WatchSkip \/ WatchFetchFail \/ WatchSendOk \/ WatchSendFail
    \/ \E doc \in Docs : WatchFetchOk(doc)
    \/ ReminderTick \/ ReminderSendOk \/ ReminderSendFail
    \/ Advance

\* the handlers of the dispatcher
Handlers ==
    \/ ForceStart \/ ForceFetchFail \/ ForceSendOk \/ ForceSendFail
    \/ \E doc \in Docs : ForceFetchOk(doc)
    \/ \E u \in Users, sq \in Subqueues : ChooseStart(u, sq)
    \/ \E u \in Users, doc \in Docs : ChooseFetchOk(u, doc)
    \/ \E u \in Users : ChooseFetchFail(u)
    \/ \E u \in Users : Stop(u)
    \/ \E u \in Users, val \in ALLOWED_NOTICE : ChooseNotice(u, val)

Next == Loops \/ Handlers

Spec == Init /\ [][Next]_vars

\* a step of main() or of a loop that is ready to run: a loop wakes, or the
\* fetch of the watch tick ends (fetch_html has a timeout)
Ready ==
    \/ MainInitialFetchFail \/ WatchFetchFail \/ WatchTick \/ WatchSkip \/ ReminderTick
    \/ \E doc \in Docs : MainInitialFetchOk(doc)
    \/ \E doc \in Docs : WatchFetchOk(doc)

\* The event loop runs a task that is ready, the clock moves, and
\* bot.send_message of the reminder loop returns or raises.  Nothing is
\* assumed of send_main_menu in a watch tick.
Fairness ==
    /\ WF_vars(Ready)
    /\ WF_vars(Advance)
    /\ WF_vars(ReminderSendFail \/ ReminderSendOk)

\* The two loops left to themselves, from every persisted configuration: the
\* handlers write the maps and leave the loops where they are.
SpecLive == Init /\ [][Loops]_vars /\ Fairness

\* ================================================================ properties
KeysOf(keys, u) == IF u \in DOMAIN keys THEN keys[u] ELSE {}

\* the keys a step adds to the delivered-keys set of u
NewKeys(u) == KeysOf(USER_NOTIFIED_KEYS', u) \ KeysOf(USER_NOTIFIED_KEYS, u)

\* the now of the reminder tick that runs in a step
TickNow == IF rem.pc = "send" THEN rem.tnow ELSE now

\* the step hands a reminder to bot.send_message
Emits == rem'.pc = "send" /\ rem' # rem

\* the reminder the step emits goes to u under key k
EmitsFor(u, k) ==
    /\ Emits
    /\ rem'.msg[1].to = u /\ rem'.msg[1].subqueue = k[2] /\ rem'.msg[1].type = k[3]
    /\ rem'.msg[1].dt = k[4] /\ rem'.msg[1].notice = k[5]

\* C1: between two resets of a subscriber's delivered-keys set, at most one
\* reminder is emitted per (transition instant, transition kind, lead-time),
\* on whatever calendar dates the ticks fall: every emission adds its key, so
\* no key set holds two keys of one entity for one instant, kind and
\* lead-time.
ReminderAtMostOnce ==
    \A u \in DOMAIN USER_NOTIFIED_KEYS : \A k1, k2 \in USER_NOTIFIED_KEYS[u] :
        (k1[2] = k2[2] /\ k1[3] = k2[3] /\ k1[4] = k2[4] /\ k1[5] = k2[5]) => k1 = k2

\* C2: a reminder tick adds a key and emits a reminder for a subscriber only
\* if the tick's now lies in [notify_at, notify_at + PREALERT_WINDOW_SECONDS),
\* notify_at being the instant of the next event of the subscriber's schedule
\* minus the lead-time; a key is added exactly with an emission.
ReminderOnlyInWindow ==
    [][/\ \A u \in Users : \A k \in NewKeys(u) :
            /\ k[4] - k[5] * 60 <= TickNow
            /\ TickNow < k[4] - k[5] * 60 + PREALERT_WINDOW_SECONDS
            /\ k[5] = EffectiveNotice(StoredNotice(USER_NOTICE, u))
            /\ \E sq \in Subqueues :
                  next_event(ReminderSchedule(u, sq), TickNow) = [dt |-> k[4], type |-> k[3]]
            /\ EmitsFor(u, k)
       /\ Emits => \E k \in NewKeys(rem'.msg[1].to) : EmitsFor(rem'.msg[1].to, k)
      ]_vars

\* a reminder emitted by a tick later than the start of its window
ReminderInsideWindow ==
    /\ rem.pc = "send"
    /\ rem.msg[1].at > rem.msg[1].dt - rem.msg[1].notice * 60
    /\ \E k \in KeysOf(USER_NOTIFIED_KEYS, rem.msg[1].to) :
          k[4] = rem.msg[1].dt /\ k[5] = rem.msg[1].notice

\* ---- process_site_once(send_updates=True) as the watch loop runs it
\* a step of the watch tick that runs the loop over the snapshot
WatchRuns == WatchSendOk \/ \E doc \in Docs : WatchFetchOk(doc)
\* the snapshot, the first item and the schedules of the run of the step
WatchSnap == IF watch.pc = "send" THEN watch.snap ELSE USER_SUBQUEUE
WatchFrom == IF watch.pc = "send" THEN watch.idx + 1 ELSE 1
WatchSchedules == IF watch.pc = "send" THEN watch.doc.schedules ELSE last_global_schedules'
\* the item whose notification the step leaves in flight, or past the end
WatchStop == IF watch'.pc = "send" THEN watch'.idx ELSE Len(WatchSnap) + 1
\* the items the step processes
WatchItems == { i \in WatchFrom..Len(WatchSnap) : i <= WatchStop }
\* the step pushes a change notification to the subscriber of item i
WatchNotifies(i) == watch'.pc = "send" /\ watch'.idx = i
\* the fingerprint of the fetched schedule of entity sq
Fresh(sq) == schedule_hash(SchedGet(WatchSchedules, sq))

\* C3: when process_site_once run by the watch loop finds the fresh
\* fingerprint of a subscriber different from the recorded one, then after
\* the subscriber is processed the delivered-keys set is empty, the recorded
\* fingerprint is the fresh one and the cached schedule is the fetched one.
WatchChangeResets ==
    [][WatchRuns =>
        \A i \in WatchItems :
            LET u == WatchSnap[i][1]
                sq == WatchSnap[i][2]
            IN  (u \in DOMAIN USER_LAST_HASH /\ Fresh(sq) # USER_LAST_HASH[u]) =>
                    /\ USER_NOTIFIED_KEYS'[u] = {}
                    /\ USER_LAST_HASH'[u] = Fresh(sq)
                    /\ USER_LAST_SCHEDULE'[u] = SchedGet(WatchSchedules, sq)
      ]_vars

\* a reminder is emitted a second time on the same day, after a watch tick
\* saw the fingerprint change and emptied the key set that held its key
ReminderAgainAfterChange ==
    /\ rem.pc = "send"
    /\ rem.msg[1].at < DayStart(D1)
    /\ <<rem.msg[1].to, rem.msg[1].dt, rem.msg[1].type, rem.msg[1].notice, 2>> \in delivered
    /\ Cardinality(KeysOf(USER_NOTIFIED_KEYS, rem.msg[1].to)) = 1
    /\ rem.msg[1].to \in DOMAIN USER_LAST_HASH
    /\ USER_LAST_HASH[rem.msg[1].to] = schedule_hash(SchedB1)

\* C4: in a watch tick a change notification is pushed to an active
\* subscriber exactly when a fingerprint is recorded for the subscriber and
\* the fresh fingerprint of the entity the subscriber has selected differs
\* from it; a first observation records the fingerprint and sends nothing, and
\* equal fingerprints send nothing and leave the delivered-keys set as it is.
WatchNotifiesExactlyOnChange ==
    [][WatchRuns =>
        \A i \in WatchItems :
            LET u == WatchSnap[i][1]
            IN  SubHas(USER_SUBQUEUE, u) =>
                    LET sq == SubGet(USER_SUBQUEUE, u)
                    IN  /\ WatchNotifies(i) <=>
                              (u \in DOMAIN USER_LAST_HASH /\ Fresh(sq) # USER_LAST_HASH[u])
                        /\ u \notin DOMAIN USER_LAST_HASH => USER_LAST_HASH'[u] = Fresh(sq)
                        /\ (u \in DOMAIN USER_LAST_HASH /\ Fresh(sq) = USER_LAST_HASH[u]) =>
                              KeysOf(USER_NOTIFIED_KEYS', u) = KeysOf(USER_NOTIFIED_KEYS, u)
      ]_vars

\* what the maps hold for u
Entry(maps, u) ==
    [hash |-> IF u \in DOMAIN maps.hash THEN <<maps.hash[u]>> ELSE <<>>,
     sched |-> IF u \in DOMAIN maps.sched THEN <<maps.sched[u]>> ELSE <<>>,
     keys |-> IF u \in DOMAIN maps.keys THEN <<maps.keys[u]>> ELSE <<>>]

\* C7: within one watch tick the replacement of the cached schedule, the
\* fingerprint comparison and update and the reset of the delivered keys of a
\* subscriber happen in one step, with no suspension between them: whatever
\* a step of the tick changes for a subscriber, it leaves the fetched
\* schedule cached, its fingerprint recorded, and the keys emptied if a
\* recorded fingerprint changed and untouched otherwise.
WatchUpdateAtomic ==
    [][WatchRuns =>
        \A u \in Users :
            Entry(Maps', u) # Entry(Maps, u) =>
                \E i \in WatchItems :
                    /\ WatchSnap[i][1] = u
                    /\ Entry(Maps', u).sched = <<SchedGet(WatchSchedules, WatchSnap[i][2])>>
                    /\ Entry(Maps', u).hash = <<Fresh(WatchSnap[i][2])>>
                    /\ Entry(Maps', u).keys =
                          IF Entry(Maps, u).hash \notin {<<>>, <<Fresh(WatchSnap[i][2])>>}
                          THEN <<{}>>
                          ELSE IF Entry(Maps, u).keys = <<>> THEN <<{}>>
                          ELSE Entry(Maps, u).keys
      ]_vars

\* the reminder loop evaluates a subscriber while the watch tick that has just
\* replaced the subscriber's schedule waits for its notification to be sent
ReminderDuringWatchSend ==
    /\ watch.pc = "send" /\ rem.pc = "send"
    /\ rem.msg[1].to = watch.snap[watch.idx][1]
    /\ Entry(Maps, rem.msg[1].to).sched =
          <<SchedGet(watch.doc.schedules, watch.snap[watch.idx][2])>>
    /\ Cardinality(KeysOf(USER_NOTIFIED_KEYS, rem.msg[1].to)) = 1

\* ---- entity selection and unsubscription
\* s is a schedule a fetch can return for entity sq
ScheduleOfEntity(s, sq) == \E doc \in Docs : SchedGet(doc.schedules, sq) = s

\* a step of the reminder tick that runs the loop over the snapshot
ReminderRuns == ReminderTick \/ ReminderSendOk
ReminderSnap == IF rem.pc = "send" THEN rem.snap ELSE USER_SUBQUEUE
ReminderFrom == IF rem.pc = "send" THEN rem.idx + 1 ELSE 1
ReminderStop == IF rem'.pc = "send" THEN rem'.idx ELSE Len(ReminderSnap) + 1
\* the items the step evaluates, when no evaluation raises
ReminderItems == { i \in ReminderFrom..Len(ReminderSnap) : i <= ReminderStop }

\* C5: a re-selection resets the fingerprint, the cached schedule and the
\* delivered keys, so that no reminder tick evaluates a subscriber's entity
\* against a cached schedule of another entity and no watch tick compares it
\* with a fingerprint recorded for another entity, also while choose_subqueue
\* waits at an await and when its fetch fails.
TicksEvaluateSelectedEntity ==
    [][/\ ReminderRuns =>
            \A i \in ReminderItems :
                LET u == ReminderSnap[i][1]
                    schedule_by_day == ReminderSchedule(u, ReminderSnap[i][2])
                IN  (SubHas(USER_SUBQUEUE, u) /\ schedule_by_day # <<>>) =>
                        ScheduleOfEntity(schedule_by_day, SubGet(USER_SUBQUEUE, u))
       /\ WatchRuns =>
            \A i \in WatchItems :
                LET u == WatchSnap[i][1]
                IN  (SubHas(USER_SUBQUEUE, u) /\ u \in DOMAIN USER_LAST_HASH) =>
                        \E doc \in Docs :
                            USER_LAST_HASH[u] =
                                schedule_hash(SchedGet(doc.schedules, SubGet(USER_SUBQUEUE, u)))
      ]_vars

\* C6: a subscriber without a selected entity has no recorded fingerprint,
\* no cached schedule and no delivered-keys set, in every reachable state.
UnsubscribedHasNoState ==
    \A u \in Users :
        ~SubHas(USER_SUBQUEUE, u) =>
            u \notin DOMAIN USER_LAST_HASH \cup DOMAIN USER_LAST_SCHEDULE
                       \cup DOMAIN USER_NOTIFIED_KEYS

\* ---- failures
\* C8: a delivery failure never aborts the batch: when sending the change
\* notification or the reminder to one subscriber raises, every remaining
\* subscriber of the tick is still processed (the fetched schedule cached) or
\* evaluated (the reminder that is due emitted under its key).
SendFailureKeepsBatch ==
    [][/\ WatchSendFail =>
            \A i \in (watch.idx + 1)..Len(watch.snap) :
                Entry(Maps', watch.snap[i][1]).sched =
                    <<SchedGet(watch.doc.schedules, watch.snap[i][2])>>
       /\ ReminderSendFail =>
            \A i \in (rem.idx + 1)..Len(rem.snap) :
                LET u == rem.snap[i][1]
                    sq == rem.snap[i][2]
                    n == EffectiveNotice(StoredNotice(USER_NOTICE, u))
                    ev == IF ReminderSchedule(u, sq) = <<>> THEN NoEvent
                          ELSE next_event(ReminderSchedule(u, sq), rem.tnow)
                IN  (/\ ev \notin {NoEvent, Raised}
                     /\ ev.dt - n * 60 <= rem.tnow
                     /\ rem.tnow < ev.dt - n * 60 + PREALERT_WINDOW_SECONDS) =>
                        ReminderKey(rem.tnow, sq, ev, n) \in KeysOf(USER_NOTIFIED_KEYS', u)
      ]_vars

\* a step in which the fetch of process_site_once raises
FetchFails ==
    \/ MainInitialFetchFail \/ WatchFetchFail \/ ForceFetchFail
    \/ \E u \in Users : ChooseFetchFail(u)

\* C9: a failed fetch changes no state: the published schedule and marker
\* and every subscriber's fingerprint, cached schedule and delivered keys are
\* what they were before the call, and no notification is sent.
FailedFetchChangesNothing ==
    [][FetchFails =>
        /\ UNCHANGED <<globals, USER_LAST_HASH, USER_LAST_SCHEDULE, USER_NOTIFIED_KEYS>>
        /\ ~Emits
        /\ watch'.pc = "send" => watch' = watch
        /\ force'.pc = "send" => force' = force
      ]_vars

\* with subscribers and no command, the initial fetch and the fetch of the
\* first watch tick have failed: nothing is published, nothing is recorded
NothingAfterFailedFetches ==
    /\ mainpc = "run" /\ cmds = 0 /\ USER_SUBQUEUE # <<>>
    /\ watch.pc = "sleep" /\ watch.timer = WatchSleepSteps
    /\ last_global_update_marker = "None" /\ last_global_schedules = <<>>
    /\ USER_LAST_HASH = <<>> /\ USER_LAST_SCHEDULE = <<>>

\* send_main_menu of a watch tick returns or raises
WatchSendEnds == WF_vars(WatchSendFail \/ WatchSendOk)

\* C10: both loops are fault-isolated: whatever fails inside a tick, each
\* loop sleeps and ticks again.  The reminder loop ticks infinitely often
\* even when a watch tick stalls in its send, and the watch loop ticks
\* infinitely often when its sends end.
LoopsKeepTicking ==
    /\ []<><<ReminderTick>>_vars
    /\ WatchSendEnds => []<><<WatchTick \/ WatchSkip>>_vars

\* the reminder loop sleeps after a failure inside its tick while a watch
\* tick is stalled in its send
ReminderSleepsAfterFailure ==
    /\ watch.pc = "send"
    /\ rem.pc = "sleep" /\ rem.timer = ReminderSleepSteps
    /\ \E i \in 1..Len(USER_SUBQUEUE) :
          LET u == USER_SUBQUEUE[i][1]
          IN  /\ ReminderSchedule(u, USER_SUBQUEUE[i][2]) # <<>>
              /\ next_event(ReminderSchedule(u, USER_SUBQUEUE[i][2]), now) = Raised

\* ---- schedule replacement and the delivered keys
\* C11: a schedule replacement never causes a duplicate reminder for an
\* unchanged event.  With no command run (no selection, no /stop) and every
\* tick on one calendar date, a second reminder for one instant, kind and
\* lead-time means that the transition was the next event before and after a
\* watch tick replaced the schedule: no such second reminder is emitted.
NoDuplicateAfterReplacement ==
    ~(/\ cmds = 0
      /\ now < DayStart(D1)
      /\ \E e \in delivered : e[5] = 2)

\* ---- the reminder loop over an unchanged subscription
\* the site republishes what is published: the fetch of a watch tick returns
\* the document of the last fetch
WatchFetchSame ==
    \E doc \in Docs :
        /\ doc.schedules = last_global_schedules
        /\ doc.marker = last_global_update_marker
        /\ WatchFetchOk(doc)

\* bot.send_message returns within the step of the clock: the reminder ticks
\* are one sleep apart
AdvanceBetweenTicks == rem.pc # "send" /\ Advance

\* main() and the two loops with no command, an unchanged site and sends
\* that succeed
SteadyNext ==
    \/ MainInitialFetchFail
    \/ \E doc \in Docs : MainInitialFetchOk(doc)
    \/ WatchTick \/ WatchSkip \/ WatchFetchFail \/ WatchFetchSame
    \/ ReminderTick \/ ReminderSendOk
    \/ AdvanceBetweenTicks

SpecSteady == Init /\ [][SteadyNext]_vars

\* the transitions of a schedule, on the dates that exist: every outage
\* start (OFF) and every outage end (ON)
DayTransitions(d, ranges) ==
    UNION { { <<DtForDate(d, ranges[j][1]), "OFF">>, <<IntervalEndDt(d, ranges[j][2]), "ON">> } :
            j \in 1..Len(ranges) }
Transitions(s) ==
    UNION { DayTransitions(s[i][1], s[i][2]) : i \in { k \in 1..Len(s) : ValidDate(s[k][1]) } }

\* C12: no reminder is skipped.  For a subscriber whose entity, lead-time and
\* cached schedule stay unchanged and whose sends succeed, with reminder ticks
\* one sleep apart: once the clock has passed the window
\* [notify_at, notify_at + PREALERT_WINDOW_SECONDS) of a transition T of the
\* cached schedule whose notify_at = T - lead-time is later than the first
\* tick, the reminder for T has been emitted.
NoReminderSkipped ==
    \A i \in 1..Len(USER_SUBQUEUE) :
        LET u == USER_SUBQUEUE[i][1]
            n == USER_NOTICE[u]
        IN  u \in DOMAIN USER_LAST_SCHEDULE =>
                \A tr \in Transitions(USER_LAST_SCHEDULE[u]) :
                    (/\ tr[1] - n * 60 > StartTime
                     /\ now >= tr[1] - n * 60 + PREALERT_WINDOW_SECONDS) =>
                        <<u, tr[1], tr[2], n, 1>> \in delivered

\* ================================================= pure functions, called alone
\* the program before main() runs: nothing loaded, no task
Halted ==
    /\ USER_SUBQUEUE = <<>> /\ USER_NOTICE = <<>>
    /\ USER_LAST_HASH = <<>> /\ USER_LAST_SCHEDULE = <<>>
    /\ USER_LAST_UPDATE_MARKER = <<>> /\ USER_NOTIFIED_KEYS = <<>>
    /\ last_global_schedules = <<>> /\ last_global_update_marker = "None"
    /\ now = StartTime /\ mainpc = "init"
    /\ watch = Idle("sleep", 0) /\ rem = Idle("sleep", 0) /\ force = Idle("idle", 0)
    /\ choose = [u \in Users |-> NoChoose]
    /\ cmds = 0 /\ delivered = {}

\* the sequences of at most n distinct elements of S
DistinctSeqs(S, n) ==
    { s \in UNION { [1..k -> S] : k \in 0..n } :
        \A i, j \in 1..Len(s) : i # j => s[i] # s[j] }

\* ---- next_event
\* ranges of one day a table cell can hold: overlapping, unsorted, and one
\* that ends with the 23:59 sentinel
RangePool ==
    { <<<<0, 0>>, <<0, 2>>>>, <<<<0, 1>>, <<0, 3>>>>, <<<<0, 3>>, <<0, 4>>>>,
      <<<<23, 58>>, <<23, 59>>>> }
\* ranges stored under one date
MaxRanges == 2
DayLists == DistinctSeqs(RangePool, MaxRanges)
\* the day-schedules: the items (date, ranges) of a dict, in insertion order
DaySchedules ==
    { s \in UNION { [1..k -> CalendarDates \X DayLists] : k \in 0..Cardinality(CalendarDates) } :
        \A i, j \in 1..Len(s) : i # j => s[i][1] # s[j][1] }
\* values of datetime.now(TZ) before, at, inside and after the ranges
ProjectorNows ==
    { DtForDate(D0, <<0, 1>>), DtForDate(D0, <<23, 57>>), DtForDate(D0, <<23, 58>>),
      DtForDate(D0, <<23, 59>>) + 30, DtForDate(D1, <<0, 0>>), DtForDate(D1, <<0, 1>>) + 1,
      DtForDate(D1, <<0, 2>>), DtForDate(D1, <<0, 3>>), DtForDate(D1, <<0, 4>>) + 1,
      DtForDate(D1, <<23, 59>>) + 59 }

InitProjector ==
    /\ Halted
    /\ call \in [fn : {"next_event"}, schedule_by_day : DaySchedules, now : ProjectorNows,
                 ret : {<<>>}]

\* next_event(schedule_by_day, now) is called and returns
CallNextEvent ==
    /\ call.fn = "next_event" /\ call.ret = <<>>
    /\ call' = [call EXCEPT !.ret = <<next_event(call.schedule_by_day, call.now)>>]
    /\ UNCHANGED program

SpecProjector == InitProjector /\ [][CallNextEvent]_vars

\* next_event has returned
Projected == call.fn = "next_event" /\ call.ret # <<>>
\* the ranges stored under the calendar date of the call's now
TodayRanges == DayGet(call.schedule_by_day, Strftime_dmY(call.now))
\* start and end instant of a range of today, 23:59 running to 23:59:59
TodayStart(j) ==
    DayStart(Strftime_dmY(call.now)) + TodayRanges[j][1][1] * 3600 + TodayRanges[j][1][2] * 60
TodayEnd(j) ==
    DayStart(Strftime_dmY(call.now)) + TodayRanges[j][2][1] * 3600 + TodayRanges[j][2][2] * 60
    + (IF TodayRanges[j][2] = <<23, 59>> THEN 59 ELSE 0)
\* the ranges of today that contain now
Containing == { j \in 1..Len(TodayRanges) : TodayStart(j) <= call.now /\ call.now <= TodayEnd(j) }

\* C13: event projector, rule 1.  If some range stored under now's calendar
\* date satisfies start <= now <= end (an end of 23:59 extended to 23:59:59),
\* next_event returns (end instant of the first such range in stored order,
\* ON), whatever the ranges on other dates.
ProjectorRule1 ==
    (Projected /\ Containing # {}) =>
        call.ret[1] = [dt |-> TodayEnd(SetMin(Containing)), type |-> "ON"]

\* inside the last minute of a day whose range ends with the sentinel, with
\* ranges stored under another date too: the end is 23:59:59
InsideSentinelRange ==
    /\ Projected
    /\ call.now = DtForDate(D0, <<23, 59>>) + 30
    /\ Containing # {}
    /\ Len(call.schedule_by_day) = 2
    /\ DayGet(call.schedule_by_day, D1) # <<>>
    /\ call.ret[1] = [dt |-> DayStart(D1) - 1, type |-> "ON"]

\* every range start of every date
StartInstants ==
    UNION { { DayStart(call.schedule_by_day[i][1]) + call.schedule_by_day[i][2][j][1][1] * 3600
                + call.schedule_by_day[i][2][j][1][2] * 60 :
              j \in 1..Len(call.schedule_by_day[i][2]) } :
            i \in 1..Len(call.schedule_by_day) }
FutureStarts == { t \in StartInstants : t > call.now }

\* C14: event projector, rules 2 and 3.  If no range of now's calendar date
\* contains now, next_event returns (the minimum over all dates of the range
\* starts strictly after now, OFF) if such a start exists and (None, None)
\* otherwise; the returned instant is never earlier than now and never a
\* start on a past date.
ProjectorRules23 ==
    (Projected /\ Containing = {}) =>
        /\ FutureStarts # {} =>
              /\ call.ret[1].type = "OFF"
              /\ call.ret[1].dt \in FutureStarts
              /\ \A t \in FutureStarts : call.ret[1].dt <= t
              /\ call.ret[1].dt >= call.now
              /\ call.ret[1].dt >= DayStart(Strftime_dmY(call.now))
        /\ FutureStarts = {} => call.ret[1] = NoEvent

\* today's ranges are over and a later date holds two starts: the earlier
\* one is returned
NearestStartOnLaterDate ==
    /\ Projected /\ Containing = {}
    /\ call.now = DtForDate(D0, <<23, 57>>)
    /\ DayGet(call.schedule_by_day, D0) # <<>>
    /\ Cardinality(FutureStarts) = 2
    /\ \A t \in FutureStarts : t >= DayStart(D1)
    /\ call.ret[1] = [dt |-> DtForDate(D1, <<0, 1>>), type |-> "OFF"]

\* ---- schedule_hash
\* The characters between the two-digit fields of the raw string, as codes
\* below every field value.
Dot == -1
Colon == -2
Dash == -3
Bar == -4

\* a part as its characters: a date "dd.mm.yyyy", a range f"{a}-{b}"
PartString(part) ==
    IF Len(part) = 3
    THEN <<part[1], Dot, part[2], Dot, part[3]>>
    ELSE <<part[1], Colon, part[2], Dash, part[3], Colon, part[4]>>

\* "|".join(parts)
RECURSIVE JoinParts(_)
JoinParts(parts) ==
    IF parts = <<>> THEN <<>>
    ELSE IF Len(parts) = 1 THEN PartString(parts[1])
    ELSE PartString(parts[1]) \o <<Bar>> \o JoinParts(Tail(parts))

\* raw, the string schedule_hash feeds to SHA-256
RawString(sched) == JoinParts(schedule_hash(sched))

\* two ranges of one date that differ by a minute
FingerprintRanges == { <<<<0, 3>>, <<0, 4>>>>, <<<<0, 3>>, <<0, 5>>>> }
FingerprintSchedules ==
    { s \in UNION { [1..k -> CalendarDates \X DistinctSeqs(FingerprintRanges, MaxRanges)] :
                      k \in 0..Cardinality(CalendarDates) } :
        \A i, j \in 1..Len(s) : i # j => s[i][1] # s[j][1] }

InitFingerprint ==
    /\ Halted
    /\ call \in [fn : {"schedule_hash"}, a : FingerprintSchedules, b : FingerprintSchedules,
                 ret : {<<>>}]

\* schedule_hash is called on the two day-schedules
CallScheduleHash ==
    /\ call.fn = "schedule_hash" /\ call.ret = <<>>
    /\ call' = [call EXCEPT !.ret = <<RawString(call.a), RawString(call.b)>>]
    /\ UNCHANGED program

SpecFingerprint == InitFingerprint /\ [][CallScheduleHash]_vars

\* the dates of a day-schedule
DateSet(s) == { s[i][1] : i \in 1..Len(s) }
\* the ordered range list stored under date d
RangesOn(s, d) == s[CHOOSE i \in 1..Len(s) : s[i][1] = d][2]

\* C15: fingerprint canonical form.  The strings schedule_hash feeds to
\* SHA-256 for two day-schedules are equal if and only if the schedules have
\* the same set of dates and, for each date, the same ordered list of ranges:
\* the insertion order of the dates does not matter, a range's minute and the
\* order of two ranges of one date do.
FingerprintCanonical ==
    (call.fn = "schedule_hash" /\ call.ret # <<>>) =>
        ((call.ret[1] = call.ret[2]) <=>
            /\ DateSet(call.a) = DateSet(call.b)
            /\ \A d \in DateSet(call.a) : RangesOn(call.a, d) = RangesOn(call.b, d))

\* two dicts with the dates inserted in opposite orders and the same ranges
\* get the same string
SameStringForBothOrders ==
    /\ call.fn = "schedule_hash" /\ call.ret # <<>>
    /\ Len(call.a) = 2 /\ call.a[1][1] = D1
    /\ call.b = <<call.a[2], call.a[1]>>
    /\ Len(call.a[1][2]) = 2
    /\ call.ret[1] = call.ret[2]

\* ---- _html_table_to_matrix
\* A table is the sequence of its <tr>, a row the sequence of its <th>/<td>:
\* [text, rowspan, colspan].  r_idx and c_idx count from 0 as in the source;
\* c_idx is the length of grid_row.  span_map maps <<r_idx, c_idx>> to
\* [text, rows_left].
RECURSIVE fill_spans_until_free(_, _)
fill_spans_until_free(st, r_idx) ==
    IF <<r_idx, Len(st.grid_row)>> \notin DOMAIN st.span_map THEN st
    ELSE CHOOSE next \in
            { fill_spans_until_free(
                  [grid_row |-> Append(st.grid_row, info.text),
                   span_map |-> Pop(IF info.rows_left > 1
                                    THEN Put(st.span_map, <<r_idx + 1, c_idx>>,
                                             [text |-> info.text,
                                              rows_left |-> info.rows_left - 1])
                                    ELSE st.span_map,
                                    <<r_idx, c_idx>>)],
                  r_idx) :
                info \in {st.span_map[<<r_idx, Len(st.grid_row)>>]},
                c_idx \in {Len(st.grid_row)} } : TRUE

\* the cell's text is appended colspan times and a rowspan claims the same
\* columns of the next row
AppendCell(st, r_idx, cell) ==
    LET c_idx == Len(st.grid_row) + cell.colspan
        below == IF cell.rowspan > 1
                 THEN { <<r_idx + 1, col>> : col \in (c_idx - cell.colspan)..(c_idx - 1) }
                 ELSE {}
    IN  [grid_row |-> st.grid_row \o [i \in 1..cell.colspan |-> cell.text],
         span_map |-> [p \in DOMAIN st.span_map \cup below |->
                          IF p \in below
                          THEN [text |-> cell.text, rows_left |-> cell.rowspan - 1]
                          ELSE st.span_map[p]]]

\* the loop over the cells of one row, then the spans at the end of the row
RECURSIVE RowCells(_, _, _)
RowCells(st, r_idx, cells) ==
    IF cells = <<>> THEN fill_spans_until_free(st, r_idx)
    ELSE RowCells(AppendCell(fill_spans_until_free(st, r_idx), r_idx, Head(cells)),
                  r_idx, Tail(cells))

\* the loop over the rows from r_idx on: grid, with the span_map carried over
RECURSIVE TableRows(_, _, _, _)
TableRows(rows, r_idx, grid, span_map) ==
    IF r_idx >= Len(rows) THEN grid
    ELSE CHOOSE g \in
            { TableRows(rows, r_idx + 1, Append(grid, st.grid_row), st.span_map) :
                st \in {RowCells([grid_row |-> <<>>, span_map |-> span_map], r_idx,
                                 rows[r_idx + 1])} } : TRUE

\* max((len(r) for r in grid), default=0)
MaxCols(grid) == IF grid = <<>> THEN 0 ELSE SetMax({ Len(grid[i]) : i \in 1..Len(grid) })

\* r.extend([""] * (max_cols - len(r)))
PadRows(grid, max_cols) ==
    [i \in 1..Len(grid) |->
        grid[i] \o [k \in 1..(max_cols - Len(grid[i])) |-> ""]]

html_table_to_matrix(table) ==
    CHOOSE m \in { PadRows(grid, MaxCols(grid)) : grid \in {TableRows(table, 0, <<>>, <<>>)} } :
        TRUE

\* the tables explored
MaxTableRows == 2
MaxRowCells == 2
MaxSpan == 2
CellTexts == {"a", "b"}
TableCells == [text : CellTexts, rowspan : 1..MaxSpan, colspan : 1..MaxSpan]
TableRowsPool == UNION { [1..k -> TableCells] : k \in 1..MaxRowCells }
Tables == UNION { [1..k -> TableRowsPool] : k \in 1..MaxTableRows }

InitMatrix ==
    /\ Halted
    /\ call \in [fn : {"_html_table_to_matrix"}, table : Tables, ret : {<<>>}]

\* _html_table_to_matrix(table) is called and returns the grid
CallTableToMatrix ==
    /\ call.fn = "_html_table_to_matrix" /\ call.ret = <<>>
    /\ call' = [call EXCEPT !.ret = <<html_table_to_matrix(call.table)>>]
    /\ UNCHANGED program

SpecMatrix == InitMatrix /\ [][CallTableToMatrix]_vars

\* The positions the cells of a table cover: the cells of a row are laid out
\* from left to right, each shifted right past the columns that spans from
\* rows above claim in that row, and a cell covers colspan columns in each of
\* rowspan rows.
RECURSIVE LayRow(_, _, _, _, _)
LayRow(cells, j, from, r_idx, taken) ==
    IF j > Len(cells) THEN {}
    ELSE LET col == SetMin({ c \in from..(from + Cardinality(taken)) : c \notin taken })
         IN  { [row |-> r_idx, idx |-> j, text |-> cells[j].text, col |-> col,
                rowspan |-> cells[j].rowspan, colspan |-> cells[j].colspan] }
             \cup LayRow(cells, j + 1, col + cells[j].colspan, r_idx, taken)

\* the columns of row r_idx that the regions of the rows above claim
ClaimedColumns(above, r_idx) ==
    UNION { g.col..(g.col + g.colspan - 1) :
            g \in { h \in above : h.row < r_idx /\ r_idx <= h.row + h.rowspan - 1 } }

\* the regions of the first n rows
RECURSIVE Regions(_, _)
Regions(table, n) ==
    IF n = 0 THEN {}
    ELSE CHOOSE all \in
            { above \cup LayRow(table[n], 1, 0, n - 1, ClaimedColumns(above, n - 1)) :
                above \in {Regions(table, n - 1)} } : TRUE

Covered(g) == (g.row..(g.row + g.rowspan - 1)) \X (g.col..(g.col + g.colspan - 1))

\* the columns of the table: those of its first row
TableWidth(regions) == SetMax({0} \cup { g.col + g.colspan : g \in { h \in regions : h.row = 0 } })

\* every declared rowspan and colspan stays inside the rows and columns of
\* the table, and no two cells claim one position
SpansFit(table, regions) ==
    /\ \A g \in regions :
          g.row + g.rowspan <= Len(table) /\ g.col + g.colspan <= TableWidth(regions)
    /\ \A g, h \in regions : g # h => Covered(g) \cap Covered(h) = {}

\* the grid holds text at position p (row and column from 0)
GridHolds(grid, p, text) ==
    /\ p[1] + 1 <= Len(grid)
    /\ p[2] + 1 <= Len(grid[p[1] + 1])
    /\ grid[p[1] + 1][p[2] + 1] = text

SpannedTextIn(grid, regions) ==
    \A g \in regions : \A p \in Covered(g) : GridHolds(grid, p, g.text)

Rectangular(grid) == \A i \in 1..Len(grid) : Len(grid[i]) = Len(grid[1])

\* C16: table materializer.  For a table in which every declared rowspan and
\* colspan fits within the table's bounds, the grid _html_table_to_matrix
\* returns is rectangular and every position covered by a cell (all colspan
\* columns in each of the rowspan rows) holds that cell's text, later cells
\* of a row being shifted right past the positions claimed from above.
MatrixHoldsSpannedText ==
    (call.fn = "_html_table_to_matrix" /\ call.ret # <<>>) =>
        \A regions \in {Regions(call.table, Len(call.table))} :
            SpansFit(call.table, regions) =>
                /\ Rectangular(call.ret[1])
                /\ SpannedTextIn(call.ret[1], regions)

\* ---- parse_all_schedules: the header row
\* subqueues = [f"{i}.{j}" for i in range(1, 7) for j in (1, 2)]
KnownSubqueues ==
    <<"1.1", "1.2", "2.1", "2.2", "3.1", "3.2", "4.1", "4.2", "5.1", "5.2", "6.1", "6.2">>
\* if len(found) >= 6
HEADER_MIN_FOUND == 6

\* A cell text is the sequence of its words and blanks.
\* (cell or "").strip(): the blanks at both ends are removed
RECURSIVE LStrip(_)
LStrip(cell) == IF cell # <<>> /\ Head(cell) = " " THEN LStrip(Tail(cell)) ELSE cell
RECURSIVE RStrip(_)
RStrip(cell) ==
    IF cell # <<>> /\ cell[Len(cell)] = " " THEN RStrip(SubSeq(cell, 1, Len(cell) - 1))
    ELSE cell
Strip(cell) == RStrip(LStrip(cell))

\* for c_i, cell in enumerate(row): the pairs (sq, c_i) of the cells equal to
\* sq, from column c_i on (columns from 0)
RECURSIVE FoundOf(_, _, _)
FoundOf(row, sq, c_i) ==
    IF c_i >= Len(row) THEN <<>>
    ELSE (IF Strip(row[c_i + 1]) = <<sq>> THEN << <<sq, c_i>> >> ELSE <<>>)
         \o FoundOf(row, sq, c_i + 1)

\* for sq in subqueues: found, from the k-th label on
RECURSIVE Found(_, _)
Found(row, k) ==
    IF k > Len(KnownSubqueues) THEN <<>>
    ELSE FoundOf(row, KnownSubqueues[k], 0) \o Found(row, k + 1)

\* for sq, c_i in found: col_map[sq] = c_i
RECURSIVE ColMap(_, _)
ColMap(col_map, found) ==
    IF found = <<>> THEN col_map
    ELSE ColMap(Put(col_map, Head(found)[1], Head(found)[2]), Tail(found))

NoHeader == [header_row_idx |-> -1, col_map |-> <<>>]

\* the loop over the rows of the matrix from row r_i on
RECURSIVE FindHeader(_, _)
FindHeader(matrix, r_i) ==
    IF r_i >= Len(matrix) THEN NoHeader
    ELSE CHOOSE h \in
            { IF Len(found) >= HEADER_MIN_FOUND
              THEN [header_row_idx |-> r_i, col_map |-> ColMap(<<>>, found)]
              ELSE FindHeader(matrix, r_i + 1) :
                found \in {Found(matrix[r_i + 1], 1)} } : TRUE

\* the header, and the schedules returned when there is none:
\* [schedules] is <<{}>> for `return update_marker, {}`
ParseHeader(matrix) ==
    CHOOSE p \in
        { [header |-> h,
           schedules |-> IF h.header_row_idx = -1 \/ h.col_map = <<>> THEN << <<>> >> ELSE <<>>] :
            h \in {FindHeader(matrix, 0)} } : TRUE

\* rows of a grid: the twelve labels after a caption; six labels, blanks
\* around them; five labels and a word; one label in six columns (a header
\* cell with colspan=6); five labels, one of them twice; a row of ranges; six
\* cells that hold a label and a word
LabelCells(ks) == [i \in 1..Len(ks) |-> <<KnownSubqueues[ks[i]]>>]
RowTwelve == << <<"caption">> >> \o LabelCells(<<1, 2, 3, 4, 5, 6, 7, 8, 9, 10, 11, 12>>)
RowSixPadded == [i \in 1..6 |-> <<" ", KnownSubqueues[i + 6], " ">>]
RowFive == LabelCells(<<1, 2, 3, 4, 5>>) \o << <<"word">> >>
RowOneLabelSixTimes == LabelCells(<<1, 1, 1, 1, 1, 1>>)
RowFiveOneTwice == LabelCells(<<2, 3, 4, 5, 6, 2>>)
RowRanges == << <<"date">>, <<"range">>, <<>>, <<"range">> >>
RowLabelAndWord == [i \in 1..6 |-> <<KnownSubqueues[i], " ", "word">>]
GridRows ==
    { RowTwelve, RowSixPadded, RowFive, RowOneLabelSixTimes, RowFiveOneTwice, RowRanges,
      RowLabelAndWord }
MaxGridRows == 3
Grids == UNION { [1..k -> GridRows] : k \in 1..MaxGridRows }

InitHeader ==
    /\ Halted
    /\ call \in [fn : {"parse_all_schedules"}, matrix : Grids, ret : {<<>>}]

\* parse_all_schedules, from the matrix to the header row
CallParseHeader ==
    /\ call.fn = "parse_all_schedules" /\ call.ret = <<>>
    /\ call' = [call EXCEPT !.ret = <<ParseHeader(call.matrix)>>]
    /\ UNCHANGED program

SpecHeader == InitHeader /\ [][CallParseHeader]_vars

\* the labels that appear in a row as an exact trimmed cell match
LabelsIn(row) ==
    { k \in 1..Len(KnownSubqueues) :
        \E c \in 1..Len(row) : Strip(row[c]) = <<KnownSubqueues[k]>> }
\* the rows that hold at least half of the twelve labels
Qualifying(matrix) ==
    { r \in 1..Len(matrix) : 2 * Cardinality(LabelsIn(matrix[r])) >= Len(KnownSubqueues) }

\* C17: header detection.  parse_all_schedules takes as header the first
\* grid row that holds at least six distinct labels of the twelve, each as an
\* exact trimmed cell match, and maps each label found to a column that holds
\* it; if no row qualifies it returns the empty schedule mapping.  A row with
\* fewer distinct labels is never chosen.
HeaderIsFirstQualifyingRow ==
    (call.fn = "parse_all_schedules" /\ call.ret # <<>>) =>
        LET h == call.ret[1].header
            q == Qualifying(call.matrix)
        IN  /\ q = {} => (h = NoHeader /\ call.ret[1].schedules = << <<>> >>)
            /\ q # {} =>
                  /\ h.header_row_idx + 1 = SetMin(q)
                  /\ DOMAIN h.col_map =
                        { KnownSubqueues[k] : k \in LabelsIn(call.matrix[SetMin(q)]) }
                  /\ \A sq \in DOMAIN h.col_map :
                        Strip(call.matrix[SetMin(q)][h.col_map[sq] + 1]) = <<sq>>

\* ---- a document that does not parse
\* format_schedule_all_days: the "intervals not found" text for an empty
\* schedule, the days in date order with their ranges otherwise
format_schedule_all_days(subqueue, schedule_by_day, update_marker) ==
    IF schedule_by_day = <<>>
    THEN [subqueue |-> subqueue, intervals_found |-> FALSE, days |-> <<>>,
          update_marker |-> update_marker]
    ELSE [subqueue |-> subqueue, intervals_found |-> TRUE,
          days |-> [i \in 1..Len(schedule_by_day) |->
                      <<SortedDates(Dates(schedule_by_day))[i],
                        DayGet(schedule_by_day, SortedDates(Dates(schedule_by_day))[i])>>],
          update_marker |-> update_marker]

\* the text of the change notification a task t hands to send_main_menu
NotificationText(t) ==
    format_schedule_all_days(t.snap[t.idx][2],
                             SchedGet(t.doc.schedules, t.snap[t.idx][2]), t.doc.marker)

\* the site answers with a schedule or with a page without table or header
ParseDocs == {DocA, DocE}

ParseLoops ==
    \/ MainInitialFetchFail
    \/ \E doc \in ParseDocs : MainInitialFetchOk(doc)
    \/ WatchTick \/ WatchSkip \/ WatchFetchFail \/ WatchSendOk \/ WatchSendFail
    \/ \E doc \in ParseDocs : WatchFetchOk(doc)
    \/ ReminderTick \/ ReminderSendOk \/ ReminderSendFail
    \/ Advance

ParseHandlers ==
    \/ ForceStart \/ ForceFetchFail \/ ForceSendOk \/ ForceSendFail
    \/ \E doc \in ParseDocs : ForceFetchOk(doc)
    \/ \E u \in Users, sq \in Subqueues : ChooseStart(u, sq)
    \/ \E u \in Users, doc \in ParseDocs : ChooseFetchOk(u, doc)
    \/ \E u \in Users : ChooseFetchFail(u)
    \/ \E u \in Users : Stop(u)
    \/ \E u \in Users, val \in ALLOWED_NOTICE : ChooseNotice(u, val)

ParseNext == ParseLoops \/ ParseHandlers

SpecParse == Init /\ [][ParseNext]_vars

\* a grid without header row
HeaderlessGrid == <<RowRanges, RowFive, RowLabelAndWord>>

\* a step of the watch tick that runs the loop over the snapshot with the
\* empty mapping of a document that did not parse
WatchRunsUnparsed ==
    \/ WatchSendOk /\ watch.doc = DocE
    \/ WatchFetchOk(DocE)

\* the schedule a reminder tick would evaluate for u is empty
NothingToEvaluate(u, subqueue) ==
    /\ u \notin DOMAIN USER_LAST_SCHEDULE \/ USER_LAST_SCHEDULE[u] = <<>>
    /\ SchedGet(last_global_schedules, subqueue) = <<>>

HasCached(u) == u \in DOMAIN USER_LAST_SCHEDULE /\ USER_LAST_SCHEDULE[u] # <<>>
\* the subscriber's own cached schedule, and the most recently published
\* schedule of the entity only without one
OwnOrPublished(u, subqueue) ==
    IF HasCached(u) THEN USER_LAST_SCHEDULE[u]
    ELSE IF subqueue \in DOMAIN last_global_schedules THEN last_global_schedules[subqueue]
    ELSE <<>>

\* C19: on a reminder tick a subscriber is evaluated against their own cached
\* schedule, and against the most recently published schedule of the entity
\* the tick read for them only when they have no cached schedule: the
\* reminder a step emits is for the next event of that schedule, and a
\* subscriber for whom both are absent or empty is passed over with no
\* notification, no key added and no key set created.
EvaluatedAgainstOwnSchedule ==
    [][ReminderRuns =>
        \A i \in ReminderItems :
            LET u == ReminderSnap[i][1]
                s == OwnOrPublished(u, ReminderSnap[i][2])
            IN  /\ (Emits /\ rem'.idx = i) =>
                      /\ s # <<>>
                      /\ rem'.msg[1].to = u
                      /\ next_event(s, TickNow) = [dt |-> rem'.msg[1].dt, type |-> rem'.msg[1].type]
                /\ (s = <<>> /\ \A j \in ReminderItems : j # i => ReminderSnap[j][1] # u) =>
                      /\ ~(Emits /\ rem'.idx = i)
                      /\ NewKeys(u) = {}
                      /\ u \in DOMAIN USER_NOTIFIED_KEYS' <=> u \in DOMAIN USER_NOTIFIED_KEYS
      ]_vars

\* a reminder is in flight for a subscriber who has selected an entity and
\* has no cached schedule yet: it was evaluated against the published one
RemindedFromPublished ==
    /\ rem.pc = "send"
    /\ rem.msg[1].to \notin DOMAIN USER_LAST_SCHEDULE
    /\ choose[rem.msg[1].to].pc = "fetch"
    /\ rem.msg[1].subqueue \in DOMAIN last_global_schedules

\* ---- what a reminder tick writes
\* a step of reminders_loop inside a tick
ReminderStep == ReminderTick \/ ReminderSendOk \/ ReminderSendFail

\* C20: frame of the reminder scheduler.  A step of a reminders_loop tick
\* never changes a subscriber's selected entity, recorded fingerprint or
\* cached schedule, nor the published schedule; of the subscriber state it
\* only adds keys to delivered-keys sets and replaces a lead-time that is
\* outside ALLOWED_NOTICE by the default.
ReminderFrame ==
    [][ReminderStep =>
        /\ UNCHANGED <<USER_SUBQUEUE, USER_LAST_HASH, USER_LAST_SCHEDULE,
                       USER_LAST_UPDATE_MARKER, globals>>
        /\ \A u \in DOMAIN USER_NOTIFIED_KEYS :
              u \in DOMAIN USER_NOTIFIED_KEYS' /\ USER_NOTIFIED_KEYS[u] \subseteq USER_NOTIFIED_KEYS'[u]
        /\ \A u \in DOMAIN USER_NOTICE' :
              \/ u \in DOMAIN USER_NOTICE /\ USER_NOTICE'[u] = USER_NOTICE[u]
              \/ /\ u \notin DOMAIN USER_NOTICE \/ USER_NOTICE[u] \notin ALLOWED_NOTICE
                 /\ USER_NOTICE'[u] = DEFAULT_NOTICE_MINUTES
        /\ DOMAIN USER_NOTICE \subseteq DOMAIN USER_NOTICE'
      ]_vars

\* a tick has added a second key to a subscriber's set and its reminder is
\* in flight; entity, fingerprint and cached schedule are there
KeyAddedToSet ==
    /\ rem.pc = "send"
    /\ Cardinality(KeysOf(USER_NOTIFIED_KEYS, rem.msg[1].to)) = 2
    /\ SubHas(USER_SUBQUEUE, rem.msg[1].to)
    /\ rem.msg[1].to \in DOMAIN USER_LAST_HASH \cap DOMAIN USER_LAST_SCHEDULE

\* ---- the recorded fingerprint and the cached schedule
\* C21: between any two steps of the tasks (every state is an await point of
\* the task that moved last), a subscriber who has both a recorded fingerprint
\* and a cached schedule has the fingerprint of that cached schedule.
FingerprintMatchesCached ==
    \A u \in DOMAIN USER_LAST_HASH \cap DOMAIN USER_LAST_SCHEDULE :
        USER_LAST_HASH[u] = schedule_hash(USER_LAST_SCHEDULE[u])

\* ---- notifications and unsubscription
\* the step of task t leaves a change notification in flight
Notifies(t, tnext) == tnext.pc = "send" /\ tnext # t
\* the subscriber that notification goes to
NotifiedUser(tnext) == tnext.snap[tnext.idx][1]

\* C22: once cmd_stop has removed a subscriber's state, no reminder and no
\* change notification is sent to them until they select an entity again:
\* every step that hands a reminder to bot.send_message or a change
\* notification to send_main_menu, also one that resumes a tick suspended in
\* a send with a snapshot taken before the /stop, sends it to a subscriber
\* who has a selected entity.
NoNotificationAfterStop ==
    [][/\ Emits => SubHas(USER_SUBQUEUE, rem'.msg[1].to)
       /\ Notifies(watch, watch') => SubHas(USER_SUBQUEUE, NotifiedUser(watch'))
       /\ Notifies(force, force') => SubHas(USER_SUBQUEUE, NotifiedUser(force'))
      ]_vars

\* ---- the cached schedules when no process_site_once runs
\* no call of process_site_once is between its start and its return: the
\* startup call is over, and neither the watch loop, admin_force nor any
\* choose_subqueue is inside one
Quiescent ==
    /\ mainpc = "run"
    /\ watch.pc \notin {"fetch", "send"}
    /\ force.pc \notin {"fetch", "send"}
    /\ \A u \in Users : choose[u].pc # "fetch"

\* C23: whenever no process_site_once call is in progress, the cached
\* schedule of every subscriber who has a selected entity and a cached
\* schedule is the published schedule of that entity (the empty one if the
\* published document has none), whatever calls overlapped before and however
\* their sends ended.
QuiescentAgreement ==
    Quiescent =>
        \A i \in 1..Len(USER_SUBQUEUE) :
            USER_SUBQUEUE[i][1] \in DOMAIN USER_LAST_SCHEDULE =>
                USER_LAST_SCHEDULE[USER_SUBQUEUE[i][1]] =
                    SchedGet(last_global_schedules, USER_SUBQUEUE[i][2])

\* ---- process_site_once(send_updates=False)
\* a step in which a refresh runs from its fetch to its return: the startup
\* call of main(), or the call of choose_subqueue for chat_id (0: main)
RefreshBy(chat_id) ==
    IF chat_id = 0 THEN \E doc \in Docs : MainInitialFetchOk(doc)
    ELSE \E doc \in Docs : ChooseFetchOk(chat_id, doc)
\* the refresh itself, on the maps of the state, for a fetched document
Refresh(doc) == RunSite(Maps, USER_SUBQUEUE, 1, doc, FALSE)
\* a refresh has cached a schedule for u whose fingerprint is not the
\* recorded one: a change seen and not announced
SeenByRefresh(u) ==
    /\ u \in DOMAIN USER_LAST_HASH \cap DOMAIN USER_LAST_SCHEDULE
    /\ USER_LAST_HASH[u] # schedule_hash(USER_LAST_SCHEDULE[u])
\* item i of the snapshot of the watch tick is a subscriber, still on the
\* entity of the snapshot, to whom such a change is to be announced: the
\* fetched schedule of the entity still differs from the recorded fingerprint
Unannounced(snap, i, schedules) ==
    /\ SeenByRefresh(snap[i][1])
    /\ SubHas(USER_SUBQUEUE, snap[i][1]) /\ SubGet(USER_SUBQUEUE, snap[i][1]) = snap[i][2]
    /\ USER_LAST_HASH[snap[i][1]] # schedule_hash(SchedGet(schedules, snap[i][2]))

\* The program with every refresh of choose_subqueue between two watch ticks:
\* a user selects an entity, and the fetch of that selection returns, while
\* the watch loop sleeps, so that the watch tick that follows is the next one
\* after the refresh.
RefreshHandlers ==
    \/ ForceStart \/ ForceFetchFail \/ ForceSendOk \/ ForceSendFail
    \/ \E doc \in Docs : ForceFetchOk(doc)
    \/ watch.pc = "sleep" /\ \E u \in Users, sq \in Subqueues : ChooseStart(u, sq)
    \/ watch.pc = "sleep" /\ \E u \in Users, doc \in Docs : ChooseFetchOk(u, doc)
    \/ \E u \in Users : ChooseFetchFail(u)
    \/ \E u \in Users : Stop(u)
    \/ \E u \in Users, val \in ALLOWED_NOTICE : ChooseNotice(u, val)
RefreshNext == Loops \/ RefreshHandlers
SpecRefresh == Init /\ [][RefreshNext]_vars

\* C24: process_site_once(send_updates=False), run at startup or by a user's
\* entity selection, sends no notification to anyone and leaves every
\* recorded fingerprint and every delivered-keys set as it was (the caller's
\* own are then set by choose_subqueue); and a change first seen by such a
\* refresh is announced to each other subscriber by the next watch tick when
\* the fetched schedule of their entity still differs from their recorded
\* fingerprint: the tick notifies them when it processes them, and it does
\* not end before it has.
RefreshNotifiesNobody ==
    [][/\ \A c \in {0} \cup Users : RefreshBy(c) =>
            /\ \A doc \in Docs :
                  /\ ~Refresh(doc).notify
                  /\ \A u \in DOMAIN USER_LAST_HASH : Refresh(doc).m.hash[u] = USER_LAST_HASH[u]
                  /\ \A u \in DOMAIN USER_NOTIFIED_KEYS :
                        Refresh(doc).m.keys[u] = USER_NOTIFIED_KEYS[u]
            /\ \A u \in DOMAIN USER_LAST_HASH \ {c} : USER_LAST_HASH'[u] = USER_LAST_HASH[u]
            /\ \A u \in DOMAIN USER_NOTIFIED_KEYS \ {c} :
                  USER_NOTIFIED_KEYS'[u] = USER_NOTIFIED_KEYS[u]
            /\ ~Emits /\ ~Notifies(watch, watch') /\ ~Notifies(force, force')
       /\ WatchRuns =>
            \A i \in WatchItems : Unannounced(WatchSnap, i, WatchSchedules) => WatchNotifies(i)
       /\ (watch.pc = "send" /\ watch'.pc = "sleep") =>
            \A i \in (watch.idx + 1)..Len(watch.snap) :
                Unannounced(watch.snap, i, watch.doc.schedules) => WatchNotifies(i)
      ]_vars
====
